---- MODULE Spec2Model ----
(***************************************************************************)
(* Maxhour Flight Hours Analyzer (src/max_hour.py).                        *)
(*                                                                         *)
(* Text is modelled as a sequence of one-character strings, so that        *)
(* strip / split / lower / upper / int() / float() are computed character  *)
(* by character.  A spreadsheet cell is a record: a text cell, a numeric   *)
(* cell or an empty cell (pandas reads an empty cell as the float NaN).    *)
(* A number is the exact decimal m / 10^e, kept normalised.                *)
(***************************************************************************)
EXTENDS Integers, Sequences, FiniteSets, TLC

VARIABLES
    hours, hours_decimal,                 \* decimal_flight_hours: argument, result
    df_columns, possible_names, column,   \* find_column: arguments, result
    df_in, df_mon, op, df_out, summary,   \* a table, the monthly table it is merged
                                          \* with, the function applied, its result,
                                          \* and the result of calculate_summary
    monthly_summary, consecutive_summary, \* create_summary_report: arguments,
    summary_report,                       \*   result
    monthly_file, consecutive_file,       \* the two file uploaders
    session_state,                        \* st.session_state
    page,                                 \* what the last script run rendered
    steps                                 \* the pipeline calls of the last script run

normVars == <<hours, hours_decimal>>
resVars  == <<df_columns, possible_names, column>>
tblVars  == <<df_in, df_mon, op, df_out, summary>>
repVars  == <<monthly_summary, consecutive_summary, summary_report>>
runVars  == <<monthly_file, consecutive_file, session_state, page, steps>>
vars == <<normVars, resVars, tblVars, repVars, runVars>>

(***************************************************************************)
(* Bounds of the model.                                                    *)
(***************************************************************************)
MaxStrLen == 5        \* longest exhaustively enumerated flight-hours text
MaxCols   == 3        \* most columns of a table given to find_column
MaxNames  == 3        \* most candidate names given to find_column
MaxProcessRows == 2   \* most rows of a table given to the Dataset Processor
MaxYearRows    == 2   \* most rows of a consecutive-year table that is merged
MaxMonthlyRows == 2   \* most rows of a monthly table that is merged with
MaxSummaryRows == 3   \* most rows of a table that is aggregated
MaxCompanies   == 2   \* most companies of a summary given to the Report Assembler

(***************************************************************************)
(* Characters and text.                                                    *)
(***************************************************************************)
UpperAlpha == <<"A","B","C","D","E","F","G","H","I","J","K","L","M",
                "N","O","P","Q","R","S","T","U","V","W","X","Y","Z">>
LowerAlpha == <<"a","b","c","d","e","f","g","h","i","j","k","l","m",
                "n","o","p","q","r","s","t","u","v","w","x","y","z">>
Digits == <<"0","1","2","3","4","5","6","7","8","9">>

Range(s) == {s[i] : i \in DOMAIN s}

SetMin(S) == CHOOSE x \in S : \A y \in S : x <= y
SetMax(S) == CHOOSE x \in S : \A y \in S : x >= y

\* str.lower() / str.upper(), one character
LowerChar(c) ==
    IF \E i \in DOMAIN UpperAlpha : UpperAlpha[i] = c
    THEN LowerAlpha[CHOOSE i \in DOMAIN UpperAlpha : UpperAlpha[i] = c]
    ELSE c
UpperChar(c) ==
    IF \E i \in DOMAIN LowerAlpha : LowerAlpha[i] = c
    THEN UpperAlpha[CHOOSE i \in DOMAIN LowerAlpha : LowerAlpha[i] = c]
    ELSE c
Lower(s) == [i \in DOMAIN s |-> LowerChar(s[i])]
Upper(s) == [i \in DOMAIN s |-> UpperChar(s[i])]

\* str.strip(): leading and trailing blanks removed
Strip(s) ==
    LET keep == {i \in DOMAIN s : s[i] # " "}
    IN  IF keep = {} THEN <<>> ELSE SubSeq(s, SetMin(keep), SetMax(keep))

\* str.split(sep): every occurrence of sep splits
RECURSIVE Split(_, _)
Split(s, sep) ==
    LET at == {i \in DOMAIN s : s[i] = sep}
    IN  IF at = {} THEN <<s>>
        ELSE <<SubSeq(s, 1, SetMin(at) - 1)>>
                 \o Split(SubSeq(s, SetMin(at) + 1, Len(s)), sep)

\* str.replace(c, '')
Remove(s, c) == SelectSeq(s, LAMBDA x : x # c)

(***************************************************************************)
(* Numbers: m / 10^e with m not divisible by 10 unless e = 0; NaN apart.   *)
(***************************************************************************)
RECURSIVE Pow10(_)
Pow10(n) == IF n = 0 THEN 1 ELSE 10 * Pow10(n - 1)

RECURSIVE Dec(_, _)
Dec(m, e) == IF e > 0 /\ m % 10 = 0 THEN Dec(m \div 10, e - 1)
             ELSE [k |-> "num", m |-> m, e |-> e]
NaN  == [k |-> "nan", m |-> 0, e |-> 0]
Zero == Dec(0, 0)

Abs(x) == IF x < 0 THEN -x ELSE x

IsNum(x) == x.k = "num"
\* x > y on floats: false as soon as one side is NaN
Greater(x, y) ==
    /\ IsNum(x) /\ IsNum(y)
    /\ LET e == IF x.e > y.e THEN x.e ELSE y.e
       IN  x.m * Pow10(e - x.e) > y.m * Pow10(e - y.e)
Negative(x) == IsNum(x) /\ x.m < 0

\* round(n / d, 0) for d > 0, ties to even as Python's round
RoundDiv(n, d) ==
    LET q == n \div d
        r == n % d
    IN  IF 2 * r < d THEN q
        ELSE IF 2 * r > d THEN q + 1
        ELSE IF q % 2 = 0 THEN q ELSE q + 1

(***************************************************************************)
(* Cells.                                                                  *)
(***************************************************************************)
Text(s)   == [k |-> "str", s |-> s, v |-> Zero]
Number(x) == [k |-> "num", s |-> <<>>, v |-> x]
Empty     == [k |-> "num", s |-> <<>>, v |-> NaN]     \* float('nan')

(***************************************************************************)
(* int(text) and float(text) of Python, on the characters of the model:    *)
(* blanks around are ignored, one sign is allowed, then digits (float: at  *)
(* most one point, at least one digit).                                    *)
(***************************************************************************)
IsDigit(c) == \E i \in DOMAIN Digits : Digits[i] = c
DigitVal(c) == (CHOOSE i \in DOMAIN Digits : Digits[i] = c) - 1

RECURSIVE DigitsVal(_)
DigitsVal(s) == IF s = <<>> THEN 0
                ELSE 10 * DigitsVal(SubSeq(s, 1, Len(s) - 1)) + DigitVal(s[Len(s)])

Signed(s) == s # <<>> /\ s[1] \in {"-", "+"}
Unsigned(s) == IF Signed(s) THEN Tail(s) ELSE s
SignOf(s) == IF Signed(s) /\ s[1] = "-" THEN -1 ELSE 1

Failed == [ok |-> FALSE, v |-> Zero]

ParseInt(s) ==
    LET t == Strip(s)
        d == Unsigned(t)
    IN  IF d # <<>> /\ \A i \in DOMAIN d : IsDigit(d[i])
        THEN [ok |-> TRUE, v |-> Dec(SignOf(t) * DigitsVal(d), 0)]
        ELSE Failed

ParseFloat(s) ==
    LET t == Strip(s)
        d == Unsigned(t)
        points == {i \in DOMAIN d : d[i] = "."}
        digits == Remove(d, ".")
        frac == IF points = {} THEN 0 ELSE Len(d) - SetMin(points)
    IN  IF /\ digits # <<>>
           /\ \A i \in DOMAIN digits : IsDigit(digits[i])
           /\ Cardinality(points) <= 1
        THEN [ok |-> TRUE, v |-> Dec(SignOf(t) * DigitsVal(digits), frac)]
        ELSE Failed

(***************************************************************************)
(* decimal_flight_hours(hours)                                             *)
(***************************************************************************)
MinutesPerHour == 60

\* variant: the minutes taken as hundredths of an hour
HoursMinutesDecimal(jam, menit) == Dec(jam * 100 + menit, 2)

\* round(jam + menit / 60, 2)
HoursMinutes(jam, menit) ==
    Dec(RoundDiv((jam * MinutesPerHour + menit) * 100, MinutesPerHour), 2)

decimal_flight_hours(h) ==
    IF h.k = "num" THEN h.v                                  \* float(hours)
    ELSE LET hours_str == Strip(h.s)
         IN  IF ":" \in Range(hours_str)
             THEN LET pemisah == Split(hours_str, ":")
                      jam == ParseInt(pemisah[1])
                      menit == ParseInt(pemisah[2])
                  IN  IF jam.ok /\ menit.ok
                      THEN HoursMinutes(jam.v.m, menit.v.m)
                      ELSE Zero                              \* except: 0.0
             ELSE LET f == ParseFloat(Remove(hours_str, ","))
                  IN  IF f.ok THEN f.v ELSE Zero             \* except: 0.0

(***************************************************************************)
(* find_column(df, possible_names).  df.columns keeps the header order;    *)
(* the dict {col.lower(): col} keeps, for each lower-cased name, the LAST  *)
(* column that has it.                                                     *)
(***************************************************************************)
None == <<"None">>

Frame(columns, rows) == [columns |-> columns, rows |-> rows]

\* variant: the dict keeps the first column of each lower-cased name
df_cols_lower_first(df, lowered) ==
    df.columns[SetMin({i \in DOMAIN df.columns : Lower(df.columns[i]) = lowered})]

df_cols_lower(df, lowered) ==
    df.columns[SetMax({i \in DOMAIN df.columns : Lower(df.columns[i]) = lowered})]

RECURSIVE find_column(_, _)
find_column(df, names) ==
    IF names = <<>> THEN None
    ELSE LET name == Head(names)
         IN  IF name \in Range(df.columns) THEN name
             ELSE IF \E i \in DOMAIN df.columns : Lower(df.columns[i]) = Lower(name)
                  THEN df_cols_lower(df, Lower(name))
                  ELSE find_column(df, Tail(names))

(***************************************************************************)
(* Tables.  A DataFrame is its header (column names, in order) and its     *)
(* rows; a row maps every column name to a cell.                           *)
(***************************************************************************)
EmptyFrame == Frame(<<>>, <<>>)                        \* pd.DataFrame()

\* variant: an existing column is taken out and the new one put last
SetColumnLast(df, name, values) ==
    LET columns == Append(SelectSeq(df.columns, LAMBDA c : c # name), name)
    IN  Frame(columns,
              [i \in DOMAIN df.rows |->
                  [c \in Range(columns) |-> IF c = name THEN values[i] ELSE df.rows[i][c]]])

\* df[name] = values: an existing column is overwritten in place, a new one
\* is appended to the header
SetColumn(df, name, values) ==
    LET columns == IF name \in Range(df.columns) THEN df.columns
                   ELSE Append(df.columns, name)
    IN  Frame(columns,
              [i \in DOMAIN df.rows |->
                  [c \in Range(columns) |-> IF c = name THEN values[i] ELSE df.rows[i][c]]])

\* df[name] = one value for every row
FillColumn(df, name, value) == SetColumn(df, name, [i \in DOMAIN df.rows |-> value])

\* df[name].apply(f), as the sequence of its values
Column(df, name) == [i \in DOMAIN df.rows |-> df.rows[i][name]]

\* what a function returns to its caller: a value, None, or an exception
Ok(v)      == [tag |-> "ok", val |-> v, exc |-> <<>>]
ReturnNone == [tag |-> "none", val |-> EmptyFrame, exc |-> <<>>]
Raise(e)   == [tag |-> "raise", val |-> EmptyFrame, exc |-> e]
NotRun     == [tag |-> "pending", val |-> EmptyFrame, exc |-> <<>>]

(***************************************************************************)
(* Names and values the program spells out.                                *)
(***************************************************************************)
FlightHoursDecimal == <<"F","l","i","g","h","t"," ","H","o","u","r","s"," ","D","e","c","i","m","a","l">>
ActualRank         == <<"A","c","t","u","a","l"," ","R","a","n","k">>
CrewHourStatus     == <<"C","r","e","w"," ","H","o","u","r"," ","S","t","a","t","u","s">>
CrewCategory       == <<"C","r","e","w"," ","C","a","t","e","g","o","r","y">>
CrewStatus         == <<"C","r","e","w"," ","S","t","a","t","u","s">>
Company            == <<"C","o","m","p","a","n","y">>

Cockpit   == Text(<<"C","O","C","K","P","I","T">>)
Cabin     == Text(<<"C","A","B","I","N">>)
Over      == Text(<<"O","V","E","R">>)
Other     == Text(<<"O","T","H","E","R">>)
Dash      == Text(<<"-">>)
ReadyCrew == Text(<<"R","e","a","d","y"," ","C","r","e","w">>)

CrewIdNamesMonthly == << <<"C","r","e","w"," ","I","D">>, <<"I","D">>, <<"c","r","e","w"," ","i","d">>, <<"i","d">> >>
CrewIdNamesYear    == << <<"I","D">>, <<"C","r","e","w"," ","I","D">>, <<"i","d">>, <<"c","r","e","w"," ","i","d">> >>
FlightHoursNamesMonthly == << <<"F","l","i","g","h","t"," ","H","o","u","r","s">>, <<"F","L","I","G","H","T"," ","H","O","U","R","S">>, <<"f","l","i","g","h","t"," ","h","o","u","r","s">> >>
FlightHoursNamesYear    == << <<"F","L","I","G","H","T"," ","H","O","U","R","S">>, <<"F","l","i","g","h","t"," ","H","o","u","r","s">>, <<"f","l","i","g","h","t"," ","h","o","u","r","s">> >>
RankNamesMonthly == << <<"R","a","n","k">>, <<"R","A","N","K">>, <<"r","a","n","k">> >>
RankNamesYear    == << <<"R","A","N","K">>, <<"R","a","n","k">>, <<"r","a","n","k">> >>
CompanyNames     == << <<"C","o","m","p","a","n","y">>, <<"C","O","M","P","A","N","Y">>, <<"c","o","m","p","a","n","y">> >>
CrewCategoryNames == << <<"C","r","e","w"," ","C","a","t","e","g","o","r","y">>, <<"C","R","E","W"," ","C","A","T","E","G","O","R","Y">>, <<"c","r","e","w"," ","c","a","t","e","g","o","r","y">> >>
CrewStatusNames   == << <<"C","r","e","w"," ","S","t","a","t","u","s">>, <<"C","R","E","W"," ","S","T","A","T","U","S">>, <<"c","r","e","w"," ","s","t","a","t","u","s">> >>

(***************************************************************************)
(* Classifier.                                                             *)
(***************************************************************************)
RECURSIVE NatStr(_)
NatStr(n) == IF n < 10 THEN <<Digits[n + 1]>>
             ELSE NatStr(n \div 10) \o <<Digits[(n % 10) + 1]>>

\* the digits of n, left-padded with zeros to the given width
RECURSIVE ZeroPad(_, _)
ZeroPad(s, width) == IF Len(s) >= width THEN s ELSE ZeroPad(<<"0">> \o s, width)

\* str(x) of a float: "nan", or the decimal with at least one fraction digit
FloatStr(x) ==
    IF ~IsNum(x) THEN <<"n","a","n">>
    ELSE LET a == Abs(x.m)
             e == IF x.e = 0 THEN 1 ELSE x.e
             scaled == IF x.e = 0 THEN a * 10 ELSE a
         IN  (IF x.m < 0 THEN <<"-">> ELSE <<>>)
                 \o NatStr(scaled \div Pow10(e)) \o <<".">>
                 \o ZeroPad(NatStr(scaled % Pow10(e)), e)

\* str(cell)
Str(cell) == IF cell.k = "str" THEN cell.s ELSE FloatStr(cell.v)

CockpitRanks == { <<"C","P","T">>, <<"F","O">>, <<"C","P","T","/","F","O">> }

actual_rank(rank) ==
    LET rank_str == Upper(Strip(Str(rank)))
    IN  IF rank_str \in CockpitRanks THEN Cockpit ELSE Cabin

MonthlyLimit == 110
YearlyLimit  == 1050

\* variant: the limit itself counts as over
crew_hour_status_mon_inclusive(h) ==
    IF Greater(h, Dec(MonthlyLimit, 0)) \/ h = Dec(MonthlyLimit, 0) THEN Over ELSE Other

crew_hour_status_mon(h)  == IF Greater(h, Dec(MonthlyLimit, 0)) THEN Over ELSE Other
crew_hour_status_year(h) == IF Greater(h, Dec(YearlyLimit, 0)) THEN Over ELSE Other

(***************************************************************************)
(* Dataset Processor.                                                      *)
(***************************************************************************)
\* df['Flight Hours Decimal'] = df[fh_col].apply(decimal_flight_hours)
WithHoursDecimal(df, fh_col) ==
    SetColumn(df, FlightHoursDecimal,
              [i \in DOMAIN df.rows |-> Number(decimal_flight_hours(df.rows[i][fh_col]))])

\* df['Actual Rank'] = df[rank_col].apply(actual_rank), or 'Cabin'
WithActualRank(df, rank_col) ==
    IF rank_col # None
    THEN SetColumn(df, ActualRank, [i \in DOMAIN df.rows |-> actual_rank(df.rows[i][rank_col])])
    ELSE FillColumn(df, ActualRank, Cabin)

\* df['Crew Hour Status'] = df['Flight Hours Decimal'].apply(...)
WithHourStatusMonthly(df) ==
    SetColumn(df, CrewHourStatus,
              [i \in DOMAIN df.rows |-> crew_hour_status_mon(df.rows[i][FlightHoursDecimal].v)])
WithHourStatusYear(df) ==
    SetColumn(df, CrewHourStatus,
              [i \in DOMAIN df.rows |-> crew_hour_status_year(df.rows[i][FlightHoursDecimal].v)])

process_monthly_data(df) ==
    LET fh_col == find_column(df, FlightHoursNamesMonthly)
        rank_col == find_column(df, RankNamesMonthly)
    IN  IF fh_col = None THEN ReturnNone
        ELSE Ok(WithHourStatusMonthly(WithActualRank(WithHoursDecimal(df, fh_col), rank_col)))

\* lines 138-157 of process_consecutive_data: the enrichment before the merge
enrich_consecutive(df) ==
    LET fh_col == find_column(df, FlightHoursNamesYear)
        rank_col == find_column(df, RankNamesYear)
    IN  IF fh_col = None THEN ReturnNone
        ELSE Ok(WithHourStatusYear(WithActualRank(WithHoursDecimal(df, fh_col), rank_col)))

(***************************************************************************)
(* Cross-Dataset Merger: DataFrame.merge(how='left'), drop, fillna and     *)
(* rename as process_consecutive_data uses them.                           *)
(***************************************************************************)
\* df[[a, b, c]]
Select(df, names) ==
    Frame(names, [i \in DOMAIN df.rows |-> [c \in Range(names) |-> df.rows[i][c]]])

\* df.drop(columns=[name])
Drop(df, name) ==
    LET columns == SelectSeq(df.columns, LAMBDA c : c # name)
    IN  Frame(columns, [i \in DOMAIN df.rows |-> [c \in Range(columns) |-> df.rows[i][c]]])

\* df[name] = df[name].fillna(value)
FillNa(df, name, value) ==
    SetColumn(df, name,
              [i \in DOMAIN df.rows |->
                  IF df.rows[i][name] = Empty THEN value ELSE df.rows[i][name]])

\* df.rename(columns={old: new}) for one pair
Rename(df, old, new) ==
    LET to(c) == IF c = old THEN new ELSE c
    IN  Frame([i \in DOMAIN df.columns |-> to(df.columns[i])],
              [i \in DOMAIN df.rows |->
                  [c \in {to(x) : x \in Range(df.columns)} |->
                      IF c = new /\ old \in Range(df.columns) THEN df.rows[i][old]
                      ELSE df.rows[i][c]]])

\* columns present on both sides of a merge, the shared key apart, get
\* the suffixes _x (left) and _y (right)
Overlap(left, right, left_on, right_on) ==
    (Range(left.columns) \cap Range(right.columns))
        \ (IF left_on = right_on THEN {left_on} ELSE {})
Suffixed(name, overlap, suffix) == IF name \in overlap THEN name \o suffix ELSE name

\* the right rows a left row is paired with: every right row with an equal
\* key, in the right table's order (an empty key is equal to an empty key)
Matches(row, right, left_on, right_on) ==
    SelectSeq([j \in DOMAIN right.rows |-> j],
              LAMBDA j : right.rows[j][right_on] = row[left_on])

\* left.merge(right, how='left', left_on=..., right_on=...)
RECURSIVE MergeRows(_, _, _, _, _)
MergeRows(left, right, left_on, right_on, i) ==
    IF i > Len(left.rows) THEN <<>>
    ELSE LET row == left.rows[i]
             overlap == Overlap(left, right, left_on, right_on)
             kept == IF left_on = right_on
                     THEN SelectSeq(right.columns, LAMBDA c : c # right_on)
                     ELSE right.columns
             names == {Suffixed(c, overlap, <<"_","x">>) : c \in Range(left.columns)}
                          \cup {Suffixed(c, overlap, <<"_","y">>) : c \in Range(kept)}
             fromLeft(n) == {c \in Range(left.columns) : Suffixed(c, overlap, <<"_","x">>) = n}
             fromRight(n) == {c \in Range(kept) : Suffixed(c, overlap, <<"_","y">>) = n}
             paired(j) == [n \in names |->
                              IF fromLeft(n) # {} THEN row[CHOOSE c \in fromLeft(n) : TRUE]
                              ELSE IF j = 0 THEN Empty
                              ELSE right.rows[j][CHOOSE c \in fromRight(n) : TRUE]]
             found == Matches(row, right, left_on, right_on)
         IN  (IF found = <<>> THEN <<paired(0)>>
              ELSE [k \in DOMAIN found |-> paired(found[k])])
                 \o MergeRows(left, right, left_on, right_on, i + 1)

LeftMerge(left, right, left_on, right_on) ==
    LET overlap == Overlap(left, right, left_on, right_on)
        kept == IF left_on = right_on
                THEN SelectSeq(right.columns, LAMBDA c : c # right_on)
                ELSE right.columns
    IN  Frame([i \in DOMAIN left.columns |-> Suffixed(left.columns[i], overlap, <<"_","x">>)]
                  \o [i \in DOMAIN kept |-> Suffixed(kept[i], overlap, <<"_","y">>)],
              MergeRows(left, right, left_on, right_on, 1))

KeyError == <<"K","e","y","E","r","r","o","r">>

\* lines 159-196 of process_consecutive_data, df being the enriched table.
\* The handler always passes the monthly table, so the branch
\* "df_mon_standardized is None" is never taken.
merge_monthly(df, id_col, df_mon_standardized) ==
    LET crew_id_monthly == find_column(df_mon_standardized, CrewIdNamesMonthly)
        crew_cat_monthly == find_column(df_mon_standardized, CrewCategoryNames)
        crew_status_monthly == find_column(df_mon_standardized, CrewStatusNames)
    IN  IF /\ crew_id_monthly # None /\ crew_cat_monthly # None
           /\ crew_status_monthly # None /\ id_col # None
        THEN LET df_merged ==
                     LeftMerge(df,
                               Select(df_mon_standardized,
                                      <<crew_id_monthly, crew_cat_monthly, crew_status_monthly>>),
                               id_col, crew_id_monthly)
                 dropped ==
                     IF crew_id_monthly \in Range(df_merged.columns) /\ crew_id_monthly # id_col
                     THEN Drop(df_merged, crew_id_monthly)
                     ELSE df_merged
             IN  IF {crew_cat_monthly, crew_status_monthly} \subseteq Range(dropped.columns)
                 THEN Ok(Rename(Rename(FillNa(FillNa(dropped, crew_cat_monthly, Dash),
                                              crew_status_monthly, Dash),
                                       crew_cat_monthly, CrewCategory),
                                crew_status_monthly, CrewStatus))
                 ELSE Raise(KeyError)
        ELSE Ok(FillColumn(FillColumn(df, CrewCategory, Dash), CrewStatus, Dash))

process_consecutive_data(df, df_mon_standardized) ==
    LET id_col == find_column(df, CrewIdNamesYear)
        enriched == enrich_consecutive(df)
    IN  IF enriched.tag = "none" THEN ReturnNone
        ELSE merge_monthly(enriched.val, id_col, df_mon_standardized)

(***************************************************************************)
(* Aggregator: calculate_summary(df).                                      *)
(***************************************************************************)
TotalReadyCockpit == <<"T","o","t","a","l"," ","R","e","a","d","y"," ","C","o","c","k","p","i","t">>
OverLimit         == <<"O","v","e","r"," ","L","i","m","i","t">>
Percentage        == <<"P","e","r","c","e","n","t","a","g","e">>
Period            == <<"P","e","r","i","o","d">>

SummaryColumns == <<Company, TotalReadyCockpit, OverLimit, Percentage>>

\* Series.unique(): the distinct values in order of first appearance
Unique(values) ==
    LET first == {i \in DOMAIN values : \A j \in 1..(i - 1) : values[j] # values[i]}
    IN  [k \in 1..Cardinality(first) |->
            values[CHOOSE i \in first : Cardinality({j \in first : j < i}) = k - 1]]

\* pd.isna(company) or company == ''
Skipped(company) == company = Empty \/ company = Text(<<>>)

\* round((over / total * 100) if total > 0 else 0, 2)
PercentageOf(over, total) ==
    IF total > 0 THEN Dec(RoundDiv(over * 100 * 100, total), 2) ELSE Zero

\* one pass of the loop body, for a company that is not skipped
SummaryRow(df, company_col, company) ==
    LET ready_cockpit(r) == /\ r[company_col] = company
                            /\ r[CrewStatus] = ReadyCrew
                            /\ r[ActualRank] = Cockpit
        ready_cockpit_over(r) == ready_cockpit(r) /\ r[CrewHourStatus] = Over
        \* len(df[mask]): the number of rows the mask keeps
        total == Cardinality({i \in DOMAIN df.rows : ready_cockpit(df.rows[i])})
        over == Cardinality({i \in DOMAIN df.rows : ready_cockpit_over(df.rows[i])})
    IN  [c \in Range(SummaryColumns) |->
            IF c = Company THEN company
            ELSE IF c = TotalReadyCockpit THEN Number(Dec(total, 0))
            ELSE IF c = OverLimit THEN Number(Dec(over, 0))
            ELSE Number(PercentageOf(over, total))]

calculate_summary(df) ==
    LET company_col == find_column(df, CompanyNames)
    IN  IF company_col = None THEN Ok(EmptyFrame)          \* st.warning
        ELSE LET companies == SelectSeq(Unique(Column(df, company_col)),
                                        LAMBDA c : ~Skipped(c))
             IN  IF companies = <<>> THEN Ok(EmptyFrame)   \* pd.DataFrame([])
                 ELSE IF CrewStatus \notin Range(df.columns)
                      THEN Raise(KeyError)                 \* company_df['Crew Status']
                      ELSE Ok(Frame(SummaryColumns,
                                    [k \in DOMAIN companies |->
                                        SummaryRow(df, company_col, companies[k])]))

(***************************************************************************)
(* Report Assembler: create_summary_report(monthly_summary,                *)
(* consecutive_summary).                                                   *)
(***************************************************************************)
\* the characters of the model in the order of their code points
CodePoints == <<" ", "%", ",", "-", ".", "/">> \o Digits \o <<":">> \o UpperAlpha
                  \o <<"_">> \o LowerAlpha
Ord(c) == CHOOSE i \in DOMAIN CodePoints : CodePoints[i] = c

\* a < b on str
RECURSIVE StrLess(_, _)
StrLess(a, b) ==
    IF b = <<>> THEN FALSE
    ELSE IF a = <<>> THEN TRUE
    ELSE IF a[1] # b[1] THEN Ord(a[1]) < Ord(b[1])
    ELSE StrLess(Tail(a), Tail(b))

\* sorted(list(set(...))) of str
RECURSIVE Sorted(_)
Sorted(S) ==
    IF S = {} THEN <<>>
    ELSE LET least == CHOOSE x \in S : \A y \in S \ {x} : StrLess(x, y)
         IN  <<least>> \o Sorted(S \ {least})

\* f"{x:.2f}%" for a number of at most 2 decimals
PercentStr(x) ==
    LET hundredths == Abs(x.m) * Pow10(2 - x.e)
    IN  (IF x.m < 0 THEN <<"-">> ELSE <<>>)
            \o NatStr(hundredths \div 100) \o <<".">>
            \o ZeroPad(NatStr(hundredths % 100), 2) \o <<"%">>

Monthly == Text(<<"M","o","n","t","h","l","y">>)
Consecutive12 == Text(<<"1","2"," ","C","o","n","s","e","c","u","t","i","v","e"," ","M","o","n","t","h","s">>)
ZeroPercent == Text(<<"0",".","0","0","%">>)

ReportColumns == <<Company, Period, Percentage>>
ReportRow(company, period, percentage) ==
    [c \in Range(ReportColumns) |->
        IF c = Company THEN company ELSE IF c = Period THEN period ELSE percentage]

\* df.empty
IsEmpty(df) == df.columns = <<>> \/ df.rows = <<>>

\* summary[summary['Company'] == company]['Percentage'].values, formatted
PercentFor(of, company) ==
    LET at == {i \in DOMAIN of.rows : of.rows[i][Company] = Text(company)}
    IN  IF at = {} THEN ZeroPercent
        ELSE Text(PercentStr(of.rows[SetMin(at)][Percentage].v))

RECURSIVE ReportRows(_, _, _)
ReportRows(companies, monthly, consecutive) ==
    IF companies = <<>> THEN <<>>
    ELSE << ReportRow(Text(Head(companies)), Monthly, PercentFor(monthly, Head(companies))),
            ReportRow(Text(<<>>), Consecutive12, PercentFor(consecutive, Head(companies))) >>
             \o ReportRows(Tail(companies), monthly, consecutive)

create_summary_report(monthly, consecutive) ==
    IF IsEmpty(monthly) /\ IsEmpty(consecutive) THEN Ok(EmptyFrame)
    ELSE IF Company \notin Range(monthly.columns) \/ Company \notin Range(consecutive.columns)
         THEN Raise(KeyError)                              \* summary['Company']
         ELSE LET companies ==
                      Sorted({monthly.rows[i][Company].s : i \in DOMAIN monthly.rows}
                                 \cup {consecutive.rows[i][Company].s : i \in DOMAIN consecutive.rows})
              IN  Ok(Frame(ReportColumns, ReportRows(companies, monthly, consecutive)))

(***************************************************************************)
(* The "Analyze Data" button handler and the results display: one run of   *)
(* the script.  st.stop() ends the script run at once; an exception        *)
(* raised inside the try block is reported and the script goes on to the   *)
(* results display.                                                        *)
(***************************************************************************)
NoFile == [present |-> FALSE, table |-> EmptyFrame]           \* uploader is None
File(table) == [present |-> TRUE, table |-> table]

\* df[df['Crew Hour Status'] == 'OVER']
OverRows(df) == Frame(df.columns, SelectSeq(df.rows, LAMBDA r : r[CrewHourStatus] = Over))

Results(report, msum, csum, mproc, cproc) ==
    [ summary_report |-> report,
      monthly_summary |-> msum,
      consecutive_summary |-> csum,
      monthly_over |-> OverRows(mproc),
      consecutive_over |-> OverRows(cproc),
      monthly_processed |-> mproc,
      consecutive_processed |-> cproc ]
NoResults == Results(EmptyFrame, EmptyFrame, EmptyFrame, EmptyFrame, EmptyFrame)

\* st.session_state: without or with the key 'results'
Session(r) == [has_results |-> TRUE, results |-> r]
EmptySession == [has_results |-> FALSE, results |-> NoResults]

\* what one run of the handler did: the calls it made, the messages it
\* showed, whether the script was stopped, and what it stored
Run(calls, messages, stopped, stored, results) ==
    [steps |-> calls, messages |-> messages, stopped |-> stopped,
     stored |-> stored, results |-> results]

analyze(monthly, consecutive) ==
    IF ~monthly.present \/ ~consecutive.present
    THEN Run(<<>>, <<"upload both files">>, FALSE, FALSE, NoResults)
    ELSE
    LET \* a local variable of the handler: the value is computed once, when
        \* the assignment runs, and the rest of the handler reads it
        Assign(value, Rest(_)) == CHOOSE r \in {Rest(v) : v \in {value}} : TRUE
        s1 == <<"read_excel", "process_monthly_data">>
        s2 == Append(s1, "process_consecutive_data")
        s3 == Append(s2, "calculate_summary monthly")
        s4 == Append(s3, "calculate_summary consecutive")
        s5 == Append(s4, "create_summary_report")
        Failure(calls) == Run(calls, <<"Error processing data">>, FALSE, FALSE, NoResults)
    IN
    Assign(process_monthly_data(monthly.table), LAMBDA df_mon_processed :
        IF df_mon_processed.tag = "none"
        THEN Run(s1, <<"no Flight Hours in Monthly Report">>, TRUE, FALSE, NoResults)
        ELSE
    Assign(process_consecutive_data(consecutive.table, df_mon_processed.val), LAMBDA df_year_merged :
        IF df_year_merged.tag = "none"
        THEN Run(s2, <<"no Flight Hours in Consecutive Year Report">>, TRUE, FALSE, NoResults)
        ELSE IF df_year_merged.tag = "raise"
        THEN Failure(s2)
        ELSE
    Assign(calculate_summary(df_mon_processed.val), LAMBDA m_summary :
        IF m_summary.tag = "raise"
        THEN Failure(s3)
        ELSE
    Assign(calculate_summary(df_year_merged.val), LAMBDA c_summary :
        IF c_summary.tag = "raise"
        THEN Failure(s4)
        ELSE
    Assign(create_summary_report(m_summary.val, c_summary.val), LAMBDA report :
        IF report.tag = "raise"
        THEN Failure(s5)
        ELSE Run(Append(s5, "store results"), <<"Data processed successfully">>, FALSE, TRUE,
                 Results(report.val, m_summary.val, c_summary.val,
                         df_mon_processed.val, df_year_merged.val)))))))

\* the page after a script run: the messages of the run, and the results
\* display, which shows whatever st.session_state holds unless the script
\* was stopped before reaching it
\* variant: the results display is reached although the script was stopped
PageWithoutStop(button, messages, stopped, session) ==
    [button |-> button, messages |-> messages, report |-> session]

Page(button, messages, stopped, session) ==
    [button |-> button, messages |-> messages,
     report |-> IF stopped THEN EmptySession ELSE session]
BlankPage == Page(FALSE, <<>>, FALSE, EmptySession)

(***************************************************************************)
(* Inputs of the specifications.                                           *)
(***************************************************************************)
SeqsUpTo(S, n) == UNION {[1..k -> S] : k \in 0..n}
Injective(s) == \A i, j \in DOMAIN s : i # j => s[i] # s[j]

\* the tuples that take their k-th component in the k-th set
RECURSIVE Product(_)
Product(domains) ==
    IF domains = <<>> THEN {<<>>}
    ELSE {<<x>> \o r : x \in Head(domains), r \in Product(Tail(domains))}

\* a table from its header and its rows written as tuples of cells
Table(columns, values) ==
    Frame(columns,
          [i \in DOMAIN values |->
              [c \in Range(columns) |->
                  values[i][CHOOSE k \in DOMAIN columns : columns[k] = c]]])

\* a layout is a header with, for each column, the cells it may hold
Col(name, cells) == [name |-> name, cells |-> cells]
Tables(layout, maxRows) ==
    {Table([k \in DOMAIN layout |-> layout[k].name], rows) :
        rows \in SeqsUpTo(Product([k \in DOMAIN layout |-> layout[k].cells]), maxRows)}

Pending == [k |-> "pending", m |-> 0, e |-> 0]

NormIdle == hours = Empty /\ hours_decimal = Pending
ResIdle  == df_columns = <<>> /\ possible_names = <<>> /\ column = Pending
TblIdle  == /\ df_in = EmptyFrame /\ df_mon = EmptyFrame /\ op = "none"
            /\ df_out = NotRun /\ summary = NotRun
RepIdle  == /\ monthly_summary = EmptyFrame /\ consecutive_summary = EmptyFrame
            /\ summary_report = NotRun
RunIdle  == /\ monthly_file = NoFile /\ consecutive_file = NoFile
            /\ session_state = EmptySession /\ page = BlankPage /\ steps = <<>>

(***************************************************************************)
(* SpecNorm: the Hour Normalizer applied to one cell.                      *)
(***************************************************************************)
TextAlphabet == {"1", "5", ":", ",", ".", "-", " "}
TextCells == {Text(s) : s \in SeqsUpTo(TextAlphabet, MaxStrLen)}
ExampleCells ==
    { Text(<<"0","8",":","3","0">>), Text(<<"2","5",":","9","9">>), Text(<<"8">>), Text(<<"1",",","2","3","4",".","5">>),
      Text(<<"g","a","r","b","a","g","e">>), Text(<<"0","8",":","3","0",":","0","0">>), Text(<<"1","1","0",":","0","0">>), Text(<<"1","1","0",":","0","1">>) }
NumberCells ==
    { Number(Dec(725, 2)), Number(Dec(8, 0)), Number(Dec(0, 0)),
      Number(Dec(-5, 0)), Number(Dec(-25, 1)), Empty }
Cells == TextCells \cup ExampleCells \cup NumberCells

InitNorm ==
    /\ hours \in Cells
    /\ hours_decimal = Pending
    /\ ResIdle /\ TblIdle /\ RepIdle /\ RunIdle

Normalize ==
    /\ hours_decimal = Pending
    /\ hours_decimal' = decimal_flight_hours(hours)
    /\ UNCHANGED <<hours, resVars, tblVars, repVars, runVars>>

SpecNorm == InitNorm /\ [][Normalize]_vars

(***************************************************************************)
(* SpecResolve: the Column Resolver applied to one header and one list of  *)
(* candidate names.                                                        *)
(***************************************************************************)
HeaderNames == { <<"i","d">>, <<"I","d">>, <<"I","D">>, <<"c","o">>, <<"C","o">> }
Headers == {s \in SeqsUpTo(HeaderNames, MaxCols) : Injective(s)}
Candidates == SeqsUpTo(HeaderNames, MaxNames)

InitResolve ==
    /\ df_columns \in Headers
    /\ possible_names \in Candidates
    /\ column = Pending
    /\ NormIdle /\ TblIdle /\ RepIdle /\ RunIdle

Resolve ==
    /\ column = Pending
    /\ column' = find_column(Frame(df_columns, <<>>), possible_names)
    /\ UNCHANGED <<df_columns, possible_names, normVars, tblVars, repVars, runVars>>

SpecResolve == InitResolve /\ [][Resolve]_vars

(***************************************************************************)
(* The two reports of the examples: a monthly report and a consecutive-    *)
(* year report with every column the program looks for.                    *)
(***************************************************************************)
AirX == Text(<<"A","I","R","-","X">>)
AirY == Text(<<"A","I","R","-","Y">>)
Standby == Text(<<"S","t","a","n","d","b","y">>)
Id(n) == Number(Dec(n, 0))

BaseMonthly ==
    Table(<< <<"C","r","e","w"," ","I","D">>, <<"C","o","m","p","a","n","y">>, <<"R","a","n","k">>, <<"F","l","i","g","h","t"," ","H","o","u","r","s">>,
             <<"C","r","e","w"," ","C","a","t","e","g","o","r","y">>, <<"C","r","e","w"," ","S","t","a","t","u","s">> >>,
          << <<Id(1), AirX, Text(<<"C","P","T">>), Text(<<"1","1","5",":","0","0">>), Text(<<"A">>), ReadyCrew>>,
             <<Id(2), AirX, Text(<<"F","O">>), Text(<<"9","0",":","0","0">>), Text(<<"B">>), ReadyCrew>> >>)

BaseYear ==
    Table(<< <<"I","D">>, <<"C","O","M","P","A","N","Y">>, <<"R","A","N","K">>, <<"F","L","I","G","H","T"," ","H","O","U","R","S">> >>,
          << <<Id(1), AirX, Text(<<"C","P","T">>), Text(<<"1","0","5","1",":","0","0">>)>>,
             <<Id(3), AirY, Text(<<"F","O">>), Text(<<"9","0","0",":","0","0">>)>> >>)

(***************************************************************************)
(* SpecProcess: the Dataset Processor applied to one raw table, as the     *)
(* monthly report or as the consecutive-year report (merged with the       *)
(* processed monthly report of the example).                               *)
(***************************************************************************)
HoursCells ==
    { Number(Dec(110, 0)), Number(Dec(11001, 2)), Text(<<"1","1","0",":","0","1">>),
      Number(Dec(1050, 0)), Number(Dec(105001, 2)), Empty }
RankCells ==
    { Text(<<"C","P","T">>), Text(<<" ","f","o"," ">>), Text(<<"C","p","t","/","F","o">>), Text(<<>>), Text(<<"F","A">>) }
NameCells == { Text(<<"A","n","n">>) }
EarlierCells == { Text(<<"o","l","d">>) }

ProcessLayouts ==
    { << Col(<<"F","l","i","g","h","t"," ","H","o","u","r","s">>, HoursCells), Col(<<"R","a","n","k">>, RankCells) >>,
      << Col(<<"C","r","e","w"," ","N","a","m","e">>, NameCells), Col(<<"f","l","i","g","h","t"," ","h","o","u","r","s">>, HoursCells) >>,
      << Col(<<"R","A","N","K">>, RankCells), Col(<<"C","r","e","w"," ","N","a","m","e">>, NameCells) >>,
      \* a raw table that already has columns with the names of the derived ones
      << Col(<<"F","l","i","g","h","t"," ","H","o","u","r","s"," ","D","e","c","i","m","a","l">>, EarlierCells), Col(<<"F","l","i","g","h","t"," ","H","o","u","r","s">>, HoursCells),
         Col(<<"A","c","t","u","a","l"," ","R","a","n","k">>, EarlierCells), Col(<<"C","r","e","w"," ","H","o","u","r"," ","S","t","a","t","u","s">>, EarlierCells) >> }

InitProcess ==
    /\ \E layout \in ProcessLayouts : df_in \in Tables(layout, MaxProcessRows)
    /\ df_mon = process_monthly_data(BaseMonthly).val
    /\ op = "none" /\ df_out = NotRun /\ summary = NotRun
    /\ NormIdle /\ ResIdle /\ RepIdle /\ RunIdle

ProcessMonthly ==
    /\ op = "none"
    /\ op' = "process_monthly_data"
    /\ df_out' = process_monthly_data(df_in)
    /\ UNCHANGED <<df_in, df_mon, summary, normVars, resVars, repVars, runVars>>

ProcessConsecutive ==
    /\ op = "none"
    /\ op' = "process_consecutive_data"
    /\ df_out' = process_consecutive_data(df_in, df_mon)
    /\ UNCHANGED <<df_in, df_mon, summary, normVars, resVars, repVars, runVars>>

\* the enrichment step of process_consecutive_data on its own
EnrichConsecutive ==
    /\ op = "none"
    /\ op' = "enrich_consecutive"
    /\ df_out' = enrich_consecutive(df_in)
    /\ UNCHANGED <<df_in, df_mon, summary, normVars, resVars, repVars, runVars>>

SpecProcess == InitProcess /\ [][ProcessMonthly \/ ProcessConsecutive \/ EnrichConsecutive]_vars

(***************************************************************************)
(* SpecMerge: a consecutive-year table merged with a monthly table, as     *)
(* the handler does it: process_monthly_data, then                         *)
(* process_consecutive_data with the processed monthly table.              *)
(***************************************************************************)
IdCells == { Id(1), Id(2), Empty }
CategoryCells == { Text(<<"A">>), Text(<<"B">>) }
StatusCells == { ReadyCrew, Standby }
OneHoursCell == { Text(<<"1","0","5","1",":","0","0">>) }

YearLayouts ==
    { << Col(<<"I","D">>, IdCells), Col(<<"F","L","I","G","H","T"," ","H","O","U","R","S">>, OneHoursCell) >>,
      << Col(<<"C","r","e","w"," ","I","D">>, IdCells), Col(<<"F","L","I","G","H","T"," ","H","O","U","R","S">>, OneHoursCell) >>,
      << Col(<<"F","L","I","G","H","T"," ","H","O","U","R","S">>, OneHoursCell) >> }
MonthlyLayouts ==
    { << Col(<<"C","r","e","w"," ","I","D">>, IdCells), Col(<<"C","r","e","w"," ","C","a","t","e","g","o","r","y">>, CategoryCells),
         Col(<<"C","r","e","w"," ","S","t","a","t","u","s">>, StatusCells), Col(<<"F","l","i","g","h","t"," ","H","o","u","r","s">>, OneHoursCell) >>,
      << Col(<<"I","D">>, IdCells), Col(<<"C","R","E","W"," ","C","A","T","E","G","O","R","Y">>, CategoryCells),
         Col(<<"C","R","E","W"," ","S","T","A","T","U","S">>, StatusCells), Col(<<"F","l","i","g","h","t"," ","H","o","u","r","s">>, OneHoursCell) >>,
      << Col(<<"C","r","e","w"," ","C","a","t","e","g","o","r","y">>, CategoryCells), Col(<<"C","r","e","w"," ","S","t","a","t","u","s">>, StatusCells),
         Col(<<"F","l","i","g","h","t"," ","H","o","u","r","s">>, OneHoursCell) >>,
      << Col(<<"C","r","e","w"," ","I","D">>, IdCells), Col(<<"C","r","e","w"," ","S","t","a","t","u","s">>, StatusCells),
         Col(<<"F","l","i","g","h","t"," ","H","o","u","r","s">>, OneHoursCell) >>,
      << Col(<<"C","r","e","w"," ","I","D">>, IdCells), Col(<<"C","r","e","w"," ","C","a","t","e","g","o","r","y">>, CategoryCells),
         Col(<<"F","l","i","g","h","t"," ","H","o","u","r","s">>, OneHoursCell) >> }

InitMerge ==
    /\ \E layout \in YearLayouts : df_in \in Tables(layout, MaxYearRows)
    /\ \E layout \in MonthlyLayouts : df_mon \in Tables(layout, MaxMonthlyRows)
    /\ op = "none" /\ df_out = NotRun /\ summary = NotRun
    /\ NormIdle /\ ResIdle /\ RepIdle /\ RunIdle

Merge ==
    /\ op = "none"
    /\ op' = "process_consecutive_data"
    /\ df_out' = process_consecutive_data(df_in, process_monthly_data(df_mon).val)
    /\ UNCHANGED <<df_in, df_mon, summary, normVars, resVars, repVars, runVars>>

SpecMerge == InitMerge /\ [][Merge]_vars

(***************************************************************************)
(* SpecSummary: a raw table processed and aggregated, as the monthly       *)
(* report or as the consecutive-year report (merged with the processed     *)
(* monthly report of the example).                                         *)
(***************************************************************************)
SummaryHours == { Text(<<"9","0",":","0","0">>), Text(<<"1","0","5","1",":","0","0">>) }
SummaryRanks == { Text(<<"C","P","T">>), Text(<<"F","A">>) }

SummaryLayouts ==
    { << Col(<<"C","o","m","p","a","n","y">>, {AirX, AirY, Text(<<>>)}), Col(<<"R","a","n","k">>, SummaryRanks),
         Col(<<"F","l","i","g","h","t"," ","H","o","u","r","s">>, SummaryHours), Col(<<"C","r","e","w"," ","S","t","a","t","u","s">>, StatusCells) >>,
      << Col(<<"C","O","M","P","A","N","Y">>, {AirX, Empty}), Col(<<"R","a","n","k">>, SummaryRanks),
         Col(<<"F","l","i","g","h","t"," ","H","o","u","r","s">>, SummaryHours), Col(<<"C","R","E","W"," ","S","T","A","T","U","S">>, StatusCells) >>,
      << Col(<<"I","D">>, {Id(1), Id(2), Id(3)}), Col(<<"C","O","M","P","A","N","Y">>, {AirX}),
         Col(<<"R","A","N","K">>, SummaryRanks), Col(<<"F","L","I","G","H","T"," ","H","O","U","R","S">>, SummaryHours) >>,
      << Col(<<"R","a","n","k">>, SummaryRanks), Col(<<"F","l","i","g","h","t"," ","H","o","u","r","s">>, SummaryHours),
         Col(<<"C","r","e","w"," ","S","t","a","t","u","s">>, StatusCells) >> }

InitSummary ==
    /\ \E layout \in SummaryLayouts : df_in \in Tables(layout, MaxSummaryRows)
    /\ df_mon = process_monthly_data(BaseMonthly).val
    /\ op = "none" /\ df_out = NotRun /\ summary = NotRun
    /\ NormIdle /\ ResIdle /\ RepIdle /\ RunIdle

\* calculate_summary(df_mon_processed)
SummarizeMonthly ==
    /\ op = "none"
    /\ op' = "process_monthly_data"
    /\ df_out' = process_monthly_data(df_in)
    /\ summary' = calculate_summary(df_out'.val)
    /\ UNCHANGED <<df_in, df_mon, normVars, resVars, repVars, runVars>>

\* calculate_summary(df_year_merged)
SummarizeConsecutive ==
    /\ op = "none"
    /\ op' = "process_consecutive_data"
    /\ df_out' = process_consecutive_data(df_in, df_mon)
    /\ summary' = calculate_summary(df_out'.val)
    /\ UNCHANGED <<df_in, df_mon, normVars, resVars, repVars, runVars>>

SpecSummary == InitSummary /\ [][SummarizeMonthly \/ SummarizeConsecutive]_vars

(***************************************************************************)
(* SpecReport: the Report Assembler applied to two company summaries.      *)
(* A summary is what calculate_summary returns: the empty frame, or one    *)
(* row per company with its counts and its percentage.                     *)
(***************************************************************************)
ReportCompanies == { <<"A","I","R","-","X">>, <<"A","I","R","-","Y">>, <<"A","i","r">> }
Counts == { <<0, 0>>, <<2, 1>>, <<3, 1>>, <<3, 3>> }     \* <<total, over>>

SummaryOf(companies, counts) ==
    IF companies = <<>> THEN EmptyFrame
    ELSE Table(SummaryColumns,
               [k \in DOMAIN companies |->
                   << Text(companies[k]), Number(Dec(counts[k][1], 0)),
                      Number(Dec(counts[k][2], 0)),
                      Number(PercentageOf(counts[k][2], counts[k][1])) >>])
Summaries(most) ==
    {SummaryOf(companies, counts) :
        <<companies, counts>> \in
            {pair \in SeqsUpTo(ReportCompanies, most) \X SeqsUpTo(Counts, most) :
                Injective(pair[1]) /\ Len(pair[1]) = Len(pair[2])}}

InitReport ==
    /\ monthly_summary \in Summaries(MaxCompanies)
    /\ consecutive_summary \in Summaries(MaxCompanies)
    /\ summary_report = NotRun
    /\ NormIdle /\ ResIdle /\ TblIdle /\ RunIdle

Report ==
    /\ summary_report = NotRun
    /\ summary_report' = create_summary_report(monthly_summary, consecutive_summary)
    /\ UNCHANGED <<monthly_summary, consecutive_summary, normVars, resVars, tblVars, runVars>>

SpecReport == InitReport /\ [][Report]_vars

(***************************************************************************)
(* SpecRun: the page.  The user puts a file into an uploader or takes it   *)
(* out (the script runs again, the button not pressed), or presses         *)
(* "Analyze Data".                                                         *)
(***************************************************************************)
MonthlyFiles ==
    { NoFile, File(BaseMonthly),
      File(Drop(BaseMonthly, <<"F","l","i","g","h","t"," ","H","o","u","r","s">>)),
      File(Drop(BaseMonthly, <<"C","o","m","p","a","n","y">>)),
      File(Drop(BaseMonthly, <<"R","a","n","k">>)),
      File(Drop(BaseMonthly, <<"C","r","e","w"," ","I","D">>)),
      File(Drop(BaseMonthly, <<"C","r","e","w"," ","C","a","t","e","g","o","r","y">>)),
      File(Drop(BaseMonthly, <<"C","r","e","w"," ","S","t","a","t","u","s">>)) }
ConsecutiveFiles ==
    { NoFile, File(BaseYear),
      File(Drop(BaseYear, <<"F","L","I","G","H","T"," ","H","O","U","R","S">>)),
      File(Drop(BaseYear, <<"C","O","M","P","A","N","Y">>)),
      File(Drop(BaseYear, <<"R","A","N","K">>)),
      File(Drop(BaseYear, <<"I","D">>)) }

InitRun ==
    /\ monthly_file = NoFile
    /\ consecutive_file = NoFile
    /\ session_state = EmptySession
    /\ page = BlankPage
    /\ steps = <<>>
    /\ NormIdle /\ ResIdle /\ TblIdle /\ RepIdle

UploadMonthly ==
    /\ \E f \in MonthlyFiles : f # monthly_file /\ monthly_file' = f
    /\ page' = Page(FALSE, <<>>, FALSE, session_state)
    /\ steps' = <<>>
    /\ UNCHANGED <<consecutive_file, session_state, normVars, resVars, tblVars, repVars>>

UploadConsecutive ==
    /\ \E f \in ConsecutiveFiles : f # consecutive_file /\ consecutive_file' = f
    /\ page' = Page(FALSE, <<>>, FALSE, session_state)
    /\ steps' = <<>>
    /\ UNCHANGED <<monthly_file, session_state, normVars, resVars, tblVars, repVars>>

Analyze ==
    \E run \in {analyze(monthly_file, consecutive_file)} :
        /\ session_state' = IF run.stored THEN Session(run.results) ELSE session_state
        /\ page' = Page(TRUE, run.messages, run.stopped, session_state')
        /\ steps' = run.steps
        /\ UNCHANGED <<monthly_file, consecutive_file, normVars, resVars, tblVars, repVars>>

SpecRun == InitRun /\ [][UploadMonthly \/ UploadConsecutive \/ Analyze]_vars

(***************************************************************************)
(* Claims about the Column Resolver (SpecResolve).                         *)
(***************************************************************************)
Resolved == column # Pending

\* candidates (positions) that are a column byte for byte / up to case
ExactHits == {j \in DOMAIN possible_names : possible_names[j] \in Range(df_columns)}
CaseHits ==
    {j \in DOMAIN possible_names :
        \E i \in DOMAIN df_columns : Lower(df_columns[i]) = Lower(possible_names[j])}
SameLower(name) == {i \in DOMAIN df_columns : Lower(df_columns[i]) = Lower(name)}

\* C2 (as stated): an exact match of any candidate wins, the first such
\* candidate is the result; only without any exact match the first column
\* equal up to case to a candidate (in candidate order) is the result; None
\* when nothing matches.
C2_ExactPassFirst ==
    Resolved =>
        IF ExactHits # {} THEN column = possible_names[SetMin(ExactHits)]
        ELSE IF CaseHits # {}
             THEN column = df_columns[SetMin(SameLower(possible_names[SetMin(CaseHits)]))]
             ELSE column = None

\* C2 (amended): the first candidate, in candidate order, that matches a
\* column exactly or up to case decides: the result is that candidate when it
\* is a column, else the last column equal to it up to case; None when no
\* candidate matches.
C2_FirstMatchingCandidate ==
    Resolved =>
        IF CaseHits = {} THEN column = None
        ELSE LET name == possible_names[SetMin(CaseHits)]
             IN  IF name \in Range(df_columns) THEN column = name
                 ELSE column = df_columns[SetMax(SameLower(name))]

\* C2 witness: a later candidate is a column byte for byte, and the result is
\* another column, found up to case by an earlier candidate.
C2_LaterExactLoses ==
    /\ Resolved
    /\ ExactHits # {}
    /\ column # None
    /\ column # possible_names[SetMin(ExactHits)]

(***************************************************************************)
(* Claims about the Hour Normalizer (SpecNorm).                            *)
(***************************************************************************)
Normalized == hours_decimal # Pending

\* C5 (as stated): whatever the cell, the normalised hours are defined (a
\* number, never missing) and non-negative.
C5_DefinedNonNegative ==
    Normalized => IsNum(hours_decimal) /\ ~Negative(hours_decimal)

\* r is n/d rounded to 2 decimals: a multiple of 0.01 at most 0.005 away
Rounded2(r, n, d) ==
    /\ IsNum(r) /\ r.e <= 2
    /\ 2 * Abs(r.m * Pow10(2 - r.e) * d - n * 100) <= d

trimmed == Strip(hours.s)
ColonText == hours.k = "str" /\ ":" \in Range(trimmed)
PlainText == hours.k = "str" /\ ":" \notin Range(trimmed)
FirstColon == SetMin({i \in DOMAIN trimmed : trimmed[i] = ":"})
BeforeFirstColon == SubSeq(trimmed, 1, FirstColon - 1)
AfterFirstColon == SubSeq(trimmed, FirstColon + 1, Len(trimmed))
\* the text between the first colon and the next one (or the end)
SecondPiece ==
    LET more == {i \in DOMAIN AfterFirstColon : AfterFirstColon[i] = ":"}
    IN  IF more = {} THEN AfterFirstColon
        ELSE SubSeq(AfterFirstColon, 1, SetMin(more) - 1)

HoursOf(hoursPart, minutesPart) ==
    LET jam == ParseInt(hoursPart)
        menit == ParseInt(minutesPart)
    IN  IF jam.ok /\ menit.ok
        THEN Rounded2(hours_decimal, jam.v.m * MinutesPerHour + menit.v.m, MinutesPerHour)
        ELSE hours_decimal = Zero

NormalizerExamples ==
    /\ hours = Text(<<"0","8",":","3","0">>) => hours_decimal = Dec(85, 1)
    /\ hours = Text(<<"2","5",":","9","9">>) => hours_decimal = Dec(2665, 2)
    /\ hours = Text(<<"8">>) => hours_decimal = Dec(8, 0)
    /\ hours = Text(<<"1",",","2","3","4",".","5">>) => hours_decimal = Dec(12345, 1)
    /\ hours = Number(Dec(725, 2)) => hours_decimal = Dec(725, 2)

PlainAndNumeric ==
    /\ PlainText =>
           LET f == ParseFloat(Remove(trimmed, ","))
           IN  f.ok => hours_decimal = f.v
    /\ hours.k = "num" => hours_decimal = hours.v

\* C9 (as stated): a text with a colon is split on its FIRST colon into an
\* hours part and a minutes part (all the rest); both integers give
\* hours + minutes/60 rounded to 2 decimals, anything else gives 0.0; a text
\* without colon is the decimal number left after removing commas; a numeric
\* cell is returned unchanged.
C9_SplitOnFirstColon ==
    Normalized =>
        /\ ColonText => HoursOf(BeforeFirstColon, AfterFirstColon)
        /\ PlainAndNumeric
        /\ NormalizerExamples

\* C9 (amended): a text with a colon is split on EVERY colon, the first two
\* pieces are the hours and the minutes and further pieces are ignored; the
\* rest as stated.
C9_SplitOnEveryColon ==
    Normalized =>
        /\ ColonText => HoursOf(BeforeFirstColon, SecondPiece)
        /\ PlainAndNumeric
        /\ NormalizerExamples

\* C9 witness: "1:5:1", a text of three pieces, normalised to 1.08.
C9_ThreePieces ==
    /\ hours = Text(<<"1",":","5",":","1">>)
    /\ hours_decimal = Dec(108, 2)


(***************************************************************************)
(* Claims about the Dataset Processor (SpecProcess).                       *)
(***************************************************************************)
Processed == op # "none" /\ df_out.tag = "ok"

\* the column of the raw table that holds the rank, if there is one
RankColumns == {c \in Range(df_in.columns) : Lower(c) = <<"r","a","n","k">>}
\* the rank cell of raw row i reads CPT, FO or CPT/FO, blanks and case apart
ReadsCockpit(i) ==
    /\ RankColumns # {}
    /\ LET cell == df_in.rows[i][CHOOSE c \in RankColumns : TRUE]
       IN  /\ cell.k = "str"
           /\ Lower(Strip(cell.s)) \in { <<"c","p","t">>, <<"f","o">>, <<"c","p","t","/","f","o">> }
\* x > n for the whole number n
Exceeds(x, n) == IsNum(x) /\ x.m > n * Pow10(x.e)

\* C10: every processed row is OVER exactly when its decimal hours are
\* strictly above 110 (monthly) or 1050 (consecutive) and OTHER otherwise;
\* it is COCKPIT exactly when its rank, trimmed and upper-cased, is CPT, FO
\* or CPT/FO, and CABIN otherwise, also when there is no rank column.
C10_DerivedFields ==
    Processed =>
        /\ Len(df_out.val.rows) = Len(df_in.rows)
        /\ \A i \in DOMAIN df_out.val.rows :
              LET row == df_out.val.rows[i]
                  limit == IF op = "process_monthly_data" THEN 110 ELSE 1050
              IN  /\ row[CrewHourStatus] =
                         (IF Exceeds(row[FlightHoursDecimal].v, limit) THEN Over ELSE Other)
                  /\ row[ActualRank] = (IF ReadsCockpit(i) THEN Cockpit ELSE Cabin)

\* C10 witness: a monthly table with a cockpit row of exactly 110 hours,
\* which is OTHER, and a row of 110.01 hours, which is OVER.
C10_AtTheLimit ==
    /\ Processed
    /\ op = "process_monthly_data"
    /\ \E i, j \in DOMAIN df_out.val.rows :
          /\ df_out.val.rows[i][FlightHoursDecimal] = Number(Dec(110, 0))
          /\ df_out.val.rows[i][CrewHourStatus] = Other
          /\ df_out.val.rows[i][ActualRank] = Cockpit
          /\ df_out.val.rows[j][FlightHoursDecimal] = Number(Dec(11001, 2))
          /\ df_out.val.rows[j][CrewHourStatus] = Over

\* the Dataset Processor has run on its own: process_monthly_data, or the
\* enrichment step of process_consecutive_data
Enriched == op \in {"process_monthly_data", "enrich_consecutive"} /\ df_out.tag = "ok"

DerivedNames == <<FlightHoursDecimal, ActualRank, CrewHourStatus>>
\* the columns of the raw table that carry the name of a derived column
Colliding == Range(df_in.columns) \cap Range(DerivedNames)

\* C11 (as stated): the output is the raw table plus the three derived
\* columns: the same number of rows in the same order, and every column of
\* the raw table is in the output with the value it had in every row,
\* whatever the columns of the raw table are called.
C11_EveryColumnKept ==
    Enriched =>
        /\ Len(df_out.val.rows) = Len(df_in.rows)
        /\ Range(df_out.val.columns) = Range(df_in.columns) \cup Range(DerivedNames)
        /\ \A i \in DOMAIN df_in.rows : \A c \in Range(df_in.columns) :
              df_out.val.rows[i][c] = df_in.rows[i][c]

\* C11 (amended): the header of the output is the header of the raw table
\* followed by those of Flight Hours Decimal, Actual Rank, Crew Hour Status
\* that the raw table does not have; the rows are as many, in the same
\* order, and every raw column that does not carry the name of a derived
\* column has its value in every row.  A raw column that carries the name of
\* a derived column stays where it is and holds the derived values.
C11_OtherColumnsKept ==
    Enriched =>
        /\ Len(df_out.val.rows) = Len(df_in.rows)
        /\ df_out.val.columns =
               df_in.columns \o SelectSeq(DerivedNames, LAMBDA c : c \notin Range(df_in.columns))
        /\ \A i \in DOMAIN df_in.rows :
              /\ \A c \in Range(df_in.columns) \ Range(DerivedNames) :
                    df_out.val.rows[i][c] = df_in.rows[i][c]
              /\ df_out.val.rows[i][FlightHoursDecimal].k = "num"
              /\ df_out.val.rows[i][ActualRank] \in {Cockpit, Cabin}
              /\ df_out.val.rows[i][CrewHourStatus] \in {Over, Other}

\* C11 witness: a processed raw table that had columns with the names of the
\* derived ones, which no longer hold what they held.
C11_DerivedNameOverwritten ==
    /\ Enriched
    /\ Colliding = Range(DerivedNames)
    /\ \E i \in DOMAIN df_in.rows : \A c \in Colliding :
          df_out.val.rows[i][c] # df_in.rows[i][c]

(***************************************************************************)
(* Claims about the Cross-Dataset Merger (SpecMerge).                      *)
(***************************************************************************)
Merged == op = "process_consecutive_data" /\ df_out.tag = "ok"

\* C1 (as stated): the merged output has as many rows as the consecutive-
\* year table, whatever the identifiers of the monthly table.
C1_RowCountPreserved ==
    Merged => Len(df_out.val.rows) = Len(df_in.rows)

\* C8 (as stated): both fields are defined in every output row; when the
\* identifier resolves in both tables and category and status resolve in the
\* monthly table, a row whose identifier is found in the monthly table
\* carries the category and status of the first monthly row with that
\* identifier and any other row carries "-" twice; when one of them does not
\* resolve, every row carries "-" twice.
C8_FirstMatchOrDash ==
    Merged =>
        LET id_col == find_column(df_in, CrewIdNamesYear)
            id_mon == find_column(df_mon, CrewIdNamesMonthly)
            cat_mon == find_column(df_mon, CrewCategoryNames)
            status_mon == find_column(df_mon, CrewStatusNames)
            joined == None \notin {id_col, id_mon, cat_mon, status_mon}
        IN  /\ {CrewCategory, CrewStatus} \subseteq Range(df_out.val.columns)
            /\ \A i \in DOMAIN df_out.val.rows :
                  LET row == df_out.val.rows[i]
                      same == IF joined
                              THEN {j \in DOMAIN df_mon.rows : df_mon.rows[j][id_mon] = row[id_col]}
                              ELSE {}
                  IN  IF same = {}
                      THEN row[CrewCategory] = Dash /\ row[CrewStatus] = Dash
                      ELSE /\ row[CrewCategory] = df_mon.rows[SetMin(same)][cat_mon]
                           /\ row[CrewStatus] = df_mon.rows[SetMin(same)][status_mon]

(***************************************************************************)
(* Claims about the Aggregator (SpecSummary).                              *)
(***************************************************************************)
\* C7 (as stated): for a processed table whose company column resolves, the
\* aggregate has exactly one row per distinct company that is neither
\* missing nor empty; its total is the number of the company's rows that are
\* Ready Crew and COCKPIT, its over the number of those that are OVER, and
\* its percentage is over/total*100, or 0 when total is 0.
C7_OneRowPerCompany ==
    (Processed /\ find_column(df_out.val, CompanyNames) # None) =>
        LET t == df_out.val
            company_col == find_column(t, CompanyNames)
            status_col == find_column(t, CrewStatusNames)
            companies == {t.rows[i][company_col] : i \in DOMAIN t.rows} \ {Empty, Text(<<>>)}
            ready(c) == {i \in DOMAIN t.rows :
                            /\ t.rows[i][company_col] = c
                            /\ status_col # None
                            /\ t.rows[i][status_col] = ReadyCrew
                            /\ t.rows[i][ActualRank] = Cockpit}
            over(c) == {i \in ready(c) : t.rows[i][CrewHourStatus] = Over}
        IN  /\ summary.tag = "ok"
            /\ Len(summary.val.rows) = Cardinality(companies)
            /\ {summary.val.rows[k][Company] : k \in DOMAIN summary.val.rows} = companies
            /\ \A k \in DOMAIN summary.val.rows :
                  LET row == summary.val.rows[k]
                      total == Cardinality(ready(row[Company]))
                      p == row[Percentage].v
                  IN  /\ row[TotalReadyCockpit] = Number(Dec(total, 0))
                      /\ row[OverLimit] = Number(Dec(Cardinality(over(row[Company])), 0))
                      /\ IsNum(p)
                      /\ p.m * total = Cardinality(over(row[Company])) * 100 * Pow10(p.e)

(***************************************************************************)
(* Claims about the Report Assembler (SpecReport).                         *)
(***************************************************************************)
CompaniesOf(s) == {s.rows[i][Company].s : i \in DOMAIN s.rows}

\* the text reads as the percentage of the company in the summary, or as
\* zero when the company is not in it, with 2 decimals and a trailing "%"
ReadsAsPercent(text, s, company) ==
    LET at == {i \in DOMAIN s.rows : s.rows[i][Company].s = company}
        value == IF at = {} THEN Zero ELSE s.rows[CHOOSE i \in at : TRUE][Percentage].v
        n == Len(text)
    IN  /\ n >= 5
        /\ text[n] = "%"
        /\ text[n - 3] = "."
        /\ ParseFloat(SubSeq(text, 1, n - 1)) = [ok |-> TRUE, v |-> value]

\* C6 (as stated): the report lists every company of the union of the two
\* summaries once, in ascending order, as a row (company, "Monthly",
\* percentage) followed by a row ("", "12 Consecutive Months", percentage);
\* a company absent from one summary, also from an empty one, reads "0.00%".
C6_UnionOfCompanies ==
    summary_report # NotRun =>
        LET companies == CompaniesOf(monthly_summary) \cup CompaniesOf(consecutive_summary)
            rows == summary_report.val.rows
        IN  /\ summary_report.tag = "ok"
            /\ Len(rows) = 2 * Cardinality(companies)
            /\ {rows[2 * k - 1][Company].s : k \in 1..Cardinality(companies)} = companies
            /\ \A k \in 1..Cardinality(companies) :
                  /\ k > 1 => StrLess(rows[2 * k - 3][Company].s, rows[2 * k - 1][Company].s)
                  /\ rows[2 * k - 1][Period] = Monthly
                  /\ ReadsAsPercent(rows[2 * k - 1][Percentage].s, monthly_summary,
                                    rows[2 * k - 1][Company].s)
                  /\ rows[2 * k][Company] = Text(<<>>)
                  /\ rows[2 * k][Period] = Consecutive12
                  /\ ReadsAsPercent(rows[2 * k][Percentage].s, consecutive_summary,
                                    rows[2 * k - 1][Company].s)

(***************************************************************************)
(* Claims about a run of the page (SpecRun).                               *)
(***************************************************************************)
HasHours(file) == \E c \in Range(file.table.columns) : Lower(c) = <<"f","l","i","g","h","t"," ","h","o","u","r","s">>

MissingFile == ~monthly_file.present \/ ~consecutive_file.present
NoHoursMonthly == ~MissingFile /\ ~HasHours(monthly_file)
NoHoursConsecutive == ~MissingFile /\ HasHours(monthly_file) /\ ~HasHours(consecutive_file)
Fatal == MissingFile \/ NoHoursMonthly \/ NoHoursConsecutive

C4_DegradedRunCompletes ==
    (page.button /\ ~MissingFile /\ HasHours(monthly_file) /\ HasHours(consecutive_file)) =>
        /\ page.messages = <<"Data processed successfully">>
        /\ steps # <<>> /\ steps[Len(steps)] = "store results"
        /\ session_state.has_results
        /\ page.report = session_state

====
